---- MODULE Spec2Model ----
(***************************************************************************)
(* Session store, parent/child tree and cascade/gather orchestration of    *)
(* hupasiya (src/src/session.rs, models.rs, orchestration.rs,              *)
(* collaboration.rs, utilities.rs).                                        *)
(*                                                                         *)
(* The sessions directory is the function `store` from session name to    *)
(* the record held by <name>.yaml.  Names are sequences of one-character   *)
(* strings, so that validate_session_name inspects characters.  An         *)
(* Option<String> is the empty set (None) or a singleton (Some).  The      *)
(* workspace client `hn` is an external executable: every call to it is    *)
(* recorded in `calls` and its outcome is an input of the action; `hn add` *)
(* names the workbox and its branch after the requested name.  Writes to   *)
(* the sessions directory are taken to succeed.                            *)
(***************************************************************************)
EXTENDS Integers, Sequences, FiniteSets, TLC

VARIABLES store, op, result, calls, report, issued, running

vars == <<store, op, result, calls, report, issued, running>>

\* ---------------------------------------------------------------- bounds
\* commands issued in one run, not counting the creation of sessions
MaxOps == 2

MaxLinkOps == 3

\* the same for the runs that cascade and gather
MaxOrchOps == 2

\* the same for the runs that try invalid names
MaxNameOps == 2

\* length of the source list handed to merge_sessions
MaxSources == 1

MaxInterruptOps == 1

MaxMergeOps == 1

MaxStatusOps == 2

MaxNameLen == 2

MaxYamlOps == 2

MaxListOps == 1
MaxTreeOps == 3

MaxTime == 2

\* ----------------------------------------------------------------- names
ValidNames == {<<"a">>, <<"b">>, <<"c">>}

EmptyName == <<>>

SlashName == <<"a", "/">>

BackslashName == <<"\\">>

InvalidNames == {EmptyName, SlashName, BackslashName}

\* a name of characters that are not separators
DotsName == <<".", ".">>

NoName == <<"-">>

\* ---------------------------------------------------- models.rs: Session
SessionStatus == {"Active", "Paused", "Integrated", "Archived", "Abandoned"}

ActivityEvent(event_type, text, arg, n) ==
    [event_type |-> event_type, text |-> text, arg |-> arg, n |-> n]

\* Session::new: status Active, no parent, no children, empty activity log
SessionNew(name, workbox_name, branch) ==
    [name |-> name, status |-> "Active", workbox_name |-> workbox_name,
     branch |-> branch, parent |-> {}, children |-> <<>>, activity_log |-> <<>>]

\* a log_activity that puts the new event in front of the older ones
log_activity_in_front(s, event_type, text, arg, n) ==
    [s EXCEPT !.activity_log = <<ActivityEvent(event_type, text, arg, n)>> \o @]

\* Session::log_activity: push one event at the end of the log
log_activity(s, event_type, text, arg, n) ==
    [s EXCEPT !.activity_log = Append(@, ActivityEvent(event_type, text, arg, n))]

Contains(seq, x) == \E i \in 1..Len(seq) : seq[i] = x

\* Vec::retain(|c| c != x): keeps the other elements in their order
RECURSIVE Retain(_, _)
Retain(seq, x) ==
    IF seq = <<>> THEN <<>>
    ELSE IF Head(seq) = x THEN Retain(Tail(seq), x)
         ELSE <<Head(seq)>> \o Retain(Tail(seq), x)

\* add_child without the containment test
add_child_always(s, child_name) == [s EXCEPT !.children = Append(@, child_name)]

\* Session::add_child: push unless already contained
add_child(s, child_name) ==
    IF ~Contains(s.children, child_name)
    THEN [s EXCEPT !.children = Append(@, child_name)]
    ELSE s

\* Session::remove_child
remove_child(s, child_name) == [s EXCEPT !.children = Retain(@, child_name)]

\* ------------------------------------------- session.rs: SessionManager
\* session_exists: the file <name>.yaml exists
session_exists(st, name) == name \in DOMAIN st

\* a save_session that refuses to overwrite a record changed since it was
\* loaded: one whose log on disk is not the beginning of the log to write
save_session_if_unchanged(st, s) ==
    IF /\ s.name \in DOMAIN st
       /\ \/ Len(st[s.name].activity_log) > Len(s.activity_log)
          \/ SubSeq(s.activity_log, 1, Len(st[s.name].activity_log))
                 # st[s.name].activity_log
    THEN st
    ELSE [k \in (DOMAIN st) \cup {s.name} |-> IF k = s.name THEN s ELSE st[k]]

\* save_session: unconditional overwrite of the file keyed by session.name
save_session(st, s) ==
    [k \in (DOMAIN st) \cup {s.name} |-> IF k = s.name THEN s ELSE st[k]]

\* delete of the file <name>.yaml
remove_file(st, name) == [k \in (DOMAIN st) \ {name} |-> st[k]]

\* validate_session_name: empty, or contains '/' or '\'
\* a validation that only rejects the empty name
validate_nonempty_only(name) ==
    IF name = <<>> THEN "InvalidSessionName" ELSE "Ok"

validate_session_name(name) ==
    IF name = <<>> THEN "InvalidSessionName"
    ELSE IF \E i \in 1..Len(name) : name[i] = "/" \/ name[i] = "\\"
         THEN "InvalidSessionName"
         ELSE "Ok"

Op(name, a, b, flag, status) ==
    [name |-> name, a |-> a, b |-> b, flag |-> flag, status |-> status]

NoReport == [done |-> 0, skipped |-> 0, printed |-> <<>>]

\* a call delegated to the workspace client or the context manager
HnCall(call, workbox, cmd, answer) ==
    [call |-> call, workbox |-> workbox, cmd |-> cmd, answer |-> answer]

\* answers of the delegated calls that carry no text
Done(ok) == IF ok THEN <<"ok">> ELSE <<"fail">>

NoCmd == [vcs |-> "-", verb |-> "-", branch |-> NoName]

\* what an operation leaves behind: the sessions directory, the value it
\* returns, the delegated calls it made and what it reported
Out(st, res, cs, rep) == [st |-> st, result |-> res, calls |-> cs, report |-> rep]

\* a create_session that writes the record before it provisions the workbox
create_session_record_first(st, name, hn_ok) ==
    IF validate_session_name(name) # "Ok"
    THEN Out(st, "InvalidSessionName", <<>>, NoReport)
    ELSE IF session_exists(st, name)
    THEN Out(st, "SessionAlreadyExists", <<>>, NoReport)
    ELSE Out(save_session(st, log_activity(SessionNew(name, name, name),
                 "SessionCreated", "Created session", name, 0)),
             IF hn_ok THEN "Ok" ELSE "HnCommandFailed",
             <<HnCall("create_workbox", name, NoCmd, Done(hn_ok))>>, NoReport)

\* SessionManager::create_session(name, ..): hn_ok is the outcome of `hn add`
create_session(st, name, hn_ok) ==
    IF validate_session_name(name) # "Ok"
    THEN Out(st, "InvalidSessionName", <<>>, NoReport)
    ELSE IF session_exists(st, name)
    THEN Out(st, "SessionAlreadyExists", <<>>, NoReport)
    ELSE IF ~hn_ok
    THEN Out(st, "HnCommandFailed",
             <<HnCall("create_workbox", name, NoCmd, Done(FALSE))>>, NoReport)
    ELSE Out(save_session(st, log_activity(SessionNew(name, name, name),
                 "SessionCreated", "Created session", name, 0)),
             "Ok", <<HnCall("create_workbox", name, NoCmd, Done(TRUE))>>, NoReport)

\* a delete_session that also takes the name out of its parent's children
\* list
delete_session_detaching(st, name) ==
    IF ~session_exists(st, name)
    THEN Out(st, "SessionNotFound", <<>>, NoReport)
    ELSE LET rest == remove_file(st, name) IN
         Out([k \in DOMAIN rest |->
                 IF k \in st[name].parent THEN remove_child(rest[k], name) ELSE rest[k]],
             "Ok", <<>>, NoReport)

\* SessionManager::delete_session
delete_session(st, name) ==
    IF ~session_exists(st, name)
    THEN Out(st, "SessionNotFound", <<>>, NoReport)
    ELSE Out(remove_file(st, name), "Ok", <<>>, NoReport)

\* a link_parent_child that updates and writes the parent before it loads
\* the child
link_parent_child_parent_first(st, parent_name, child_name) ==
    IF ~session_exists(st, parent_name)
    THEN Out(st, "SessionNotFound", <<>>, NoReport)
    ELSE LET parent == log_activity(add_child(st[parent_name], child_name),
                           "ChildAdded", "Added child session", child_name, 0)
             st1 == save_session(st, parent)
         IN  IF ~session_exists(st1, child_name)
             THEN Out(st1, "SessionNotFound", <<>>, NoReport)
             ELSE Out(save_session(st1,
                          log_activity([st1[child_name] EXCEPT !.parent = {parent_name}],
                              "ParentLinked", "Linked to parent session", parent_name, 0)),
                      "Ok", <<>>, NoReport)

\* SessionManager::link_parent_child: both records are loaded before either
\* is changed, the parent is written first and the child second
link_parent_child(st, parent_name, child_name) ==
    IF ~session_exists(st, parent_name) \/ ~session_exists(st, child_name)
    THEN Out(st, "SessionNotFound", <<>>, NoReport)
    ELSE LET parent == log_activity(add_child(st[parent_name], child_name),
                           "ChildAdded", "Added child session", child_name, 0)
             child == log_activity([st[child_name] EXCEPT !.parent = {parent_name}],
                          "ParentLinked", "Linked to parent session", parent_name, 0)
         IN  Out(save_session(save_session(st, parent), child), "Ok", <<>>, NoReport)

\* SessionManager::unlink_parent_child
unlink_parent_child(st, child_name) ==
    IF ~session_exists(st, child_name)
    THEN Out(st, "SessionNotFound", <<>>, NoReport)
    ELSE IF st[child_name].parent = {}
    THEN Out(st, "Ok", <<>>, NoReport)
    ELSE LET parent_name == CHOOSE p \in st[child_name].parent : TRUE
         IN  IF ~session_exists(st, parent_name)
             THEN Out(st, "SessionNotFound", <<>>, NoReport)
             ELSE LET parent == remove_child(st[parent_name], child_name)
                      child == [st[child_name] EXCEPT !.parent = {}]
                  IN  Out(save_session(save_session(st, parent), child),
                          "Ok", <<>>, NoReport)

\* a close_session that only accepts the closing statuses
close_session_closing_only(st, name, status, remove_workbox, hn_ok) ==
    IF ~session_exists(st, name)
    THEN Out(st, "SessionNotFound", <<>>, NoReport)
    ELSE IF status \in {"Active", "Paused"}
    THEN Out(st, "Other", <<>>, NoReport)
    ELSE Out(save_session(st,
                 log_activity([st[name] EXCEPT !.status = status],
                     "StatusChanged", "Session closed with status", NoName, 0)),
             "Ok", <<>>, NoReport)

\* a close_session that saves the record before it removes the workbox
close_session_record_first(st, name, status, remove_workbox, hn_ok) ==
    IF ~session_exists(st, name)
    THEN Out(st, "SessionNotFound", <<>>, NoReport)
    ELSE LET session == st[name]
             cs == IF remove_workbox
                   THEN <<HnCall("remove_workbox", session.workbox_name, NoCmd, Done(hn_ok))>>
                   ELSE <<>>
         IN  Out(save_session(st,
                     log_activity([session EXCEPT !.status = status],
                         "StatusChanged", "Session closed with status", NoName, 0)),
                 IF remove_workbox /\ ~hn_ok THEN "HnCommandFailed" ELSE "Ok",
                 cs, NoReport)

\* SessionManager::close_session: the workbox is removed before the record
\* is touched
close_session(st, name, status, remove_workbox, hn_ok) ==
    IF ~session_exists(st, name)
    THEN Out(st, "SessionNotFound", <<>>, NoReport)
    ELSE LET session == st[name]
             cs == IF remove_workbox
                   THEN <<HnCall("remove_workbox", session.workbox_name, NoCmd, Done(hn_ok))>>
                   ELSE <<>>
         IN  IF remove_workbox /\ ~hn_ok
             THEN Out(st, "HnCommandFailed", cs, NoReport)
             ELSE Out(save_session(st,
                          log_activity([session EXCEPT !.status = status],
                              "StatusChanged", "Session closed with status", NoName, 0)),
                      "Ok", cs, NoReport)

\* SessionManager::clone_session (new_name is not validated)
clone_session(st, name, new_name, hn_ok) ==
    IF ~session_exists(st, name)
    THEN Out(st, "SessionNotFound", <<>>, NoReport)
    ELSE IF session_exists(st, new_name)
    THEN Out(st, "SessionAlreadyExists", <<>>, NoReport)
    ELSE IF ~hn_ok
    THEN Out(st, "HnCommandFailed",
             <<HnCall("create_workbox", new_name, NoCmd, Done(FALSE))>>, NoReport)
    ELSE LET new_session ==
                 [st[name] EXCEPT !.name = new_name,
                                  !.workbox_name = new_name,
                                  !.branch = new_name,
                                  !.parent = {},
                                  !.children = <<>>,
                                  !.activity_log = <<>>]
         IN  Out(save_session(st, log_activity(new_session, "SessionCreated",
                     "Cloned from session", name, 0)),
                 "Ok", <<HnCall("create_workbox", new_name, NoCmd, Done(TRUE))>>, NoReport)

HpPrefix == <<"h", "p", "-">>

\* CollaborationManager::clone_session (new_name is not validated; without
\* diverge the clone records the source as its parent)
collab_clone_session(st, source_name, new_name, diverge, info_ok, hn_ok) ==
    IF ~session_exists(st, source_name)
    THEN Out(st, "SessionNotFound", <<>>, NoReport)
    ELSE IF session_exists(st, new_name)
    THEN Out(st, "SessionAlreadyExists", <<>>, NoReport)
    ELSE
    LET source == st[source_name]
        info == HnCall("get_workbox_info", source.workbox_name, NoCmd, Done(info_ok))
        add == HnCall("create_workbox", HpPrefix \o new_name, NoCmd, Done(hn_ok))
        new_branch == IF diverge THEN source.branch \o <<"-">> \o new_name
                      ELSE source.branch
        fresh == SessionNew(new_name, HpPrefix \o new_name, new_branch)
        new_session == IF ~diverge THEN [fresh EXCEPT !.parent = {source_name}]
                       ELSE fresh
    IN  IF ~info_ok
        THEN Out(st, "WorkboxNotFound", <<info>>, NoReport)
        ELSE IF ~hn_ok
        THEN Out(st, "HnCommandFailed", <<info, add>>, NoReport)
        ELSE Out(save_session(st, log_activity(new_session, "SessionCreated",
                     "Cloned from", source_name, 0)),
                 "Ok", <<info, add>>, NoReport)

\* cli.rs cmd_new: create the session, then link it under --parent; a
\* failing link leaves the created session behind
cmd_new(st, name, parent, hn_ok) ==
    LET created == create_session(st, name, hn_ok)
    IN  IF created.result # "Ok" \/ parent = {}
        THEN created
        ELSE LET parent_name == CHOOSE p \in parent : TRUE
                 linked == link_parent_child(created.st, parent_name, name)
             IN  Out(linked.st, linked.result, created.calls \o linked.calls, NoReport)

\* ------------------------------------- session.rs: the YAML session file
\* #[serde(rename_all = "lowercase")] on AgentType: the unit variants
AgentTypeNames ==
    [Feature |-> <<"f", "e", "a", "t", "u", "r", "e">>,
     Bugfix |-> <<"b", "u", "g", "f", "i", "x">>,
     Review |-> <<"r", "e", "v", "i", "e", "w">>,
     Research |-> <<"r", "e", "s", "e", "a", "r", "c", "h">>,
     Refactor |-> <<"r", "e", "f", "a", "c", "t", "o", "r">>,
     Test |-> <<"t", "e", "s", "t">>,
     Docs |-> <<"d", "o", "c", "s">>,
     Shepherd |-> <<"s", "h", "e", "p", "h", "e", "r", "d">>]

\* #[serde(rename_all = "lowercase")] on SessionStatus
SessionStatusNames ==
    [Active |-> <<"a", "c", "t", "i", "v", "e">>,
     Paused |-> <<"p", "a", "u", "s", "e", "d">>,
     Integrated |-> <<"i", "n", "t", "e", "g", "r", "a", "t", "e", "d">>,
     Archived |-> <<"a", "r", "c", "h", "i", "v", "e", "d">>,
     Abandoned |-> <<"a", "b", "a", "n", "d", "o", "n", "e", "d">>]

\* #[serde(rename_all = "snake_case")] on ActivityType
ActivityTypeNames ==
    [SessionCreated |-> <<"s", "e", "s", "s", "i", "o", "n", "_", "c", "r", "e", "a", "t", "e", "d">>,
     ContextEdited |-> <<"c", "o", "n", "t", "e", "x", "t", "_", "e", "d", "i", "t", "e", "d">>,
     AiLaunched |-> <<"a", "i", "_", "l", "a", "u", "n", "c", "h", "e", "d">>,
     CommitMade |-> <<"c", "o", "m", "m", "i", "t", "_", "m", "a", "d", "e">>,
     PrCreated |-> <<"p", "r", "_", "c", "r", "e", "a", "t", "e", "d">>,
     PrSynced |-> <<"p", "r", "_", "s", "y", "n", "c", "e", "d">>,
     PrCommentReceived |-> <<"p", "r", "_", "c", "o", "m", "m", "e", "n", "t", "_", "r", "e", "c", "e", "i", "v", "e", "d">>,
     ShepherdRun |-> <<"s", "h", "e", "p", "h", "e", "r", "d", "_", "r", "u", "n">>,
     Cascaded |-> <<"c", "a", "s", "c", "a", "d", "e", "d">>,
     Gathered |-> <<"g", "a", "t", "h", "e", "r", "e", "d">>,
     Integrated |-> <<"i", "n", "t", "e", "g", "r", "a", "t", "e", "d">>,
     StatusChanged |-> <<"s", "t", "a", "t", "u", "s", "_", "c", "h", "a", "n", "g", "e", "d">>,
     ParentLinked |-> <<"p", "a", "r", "e", "n", "t", "_", "l", "i", "n", "k", "e", "d">>,
     ChildAdded |-> <<"c", "h", "i", "l", "d", "_", "a", "d", "d", "e", "d">>]

\* an AgentType value: a unit variant, or Custom carrying a string
AgentType(variant, arg) == [variant |-> variant, arg |-> arg]

\* plain scalars that YAML reads as null
NullWords == {<<"n", "u", "l", "l">>, <<"~">>, <<>>}

Scalar(tag, style, text) == [tag |-> tag, style |-> style, text |-> text]

\* a string emitter that never quotes
yaml_str_plain(text) == Scalar("", "plain", text)

\* a String as serde_yaml writes it: quoted when the plain text would be
\* read back as something other than a string
yaml_str(text) ==
    Scalar("", IF text \in NullWords THEN "quoted" ELSE "plain", text)

parse_str(node) == node.text

\* Option<String>: None is written as the plain scalar null
yaml_option(o) ==
    IF o = {} THEN Scalar("", "plain", <<"n", "u", "l", "l">>)
    ELSE yaml_str(CHOOSE x \in o : TRUE)

parse_option(node) ==
    IF node.style = "plain" /\ node.text \in NullWords THEN {} ELSE {parse_str(node)}

\* an enum of unit variants is written as its renamed variant name
yaml_variant(names, variant) == Scalar("", "plain", names[variant])

parse_variant(names, node) == CHOOSE v \in DOMAIN names : names[v] = node.text

\* AgentType: Custom(name) is written under the tag of its variant
yaml_agent_type(a) ==
    IF a.variant = "Custom" THEN Scalar("custom", yaml_str(a.arg).style, a.arg)
    ELSE yaml_variant(AgentTypeNames, a.variant)

parse_agent_type(node) ==
    IF node.tag = "custom" THEN AgentType("Custom", node.text)
    ELSE AgentType(parse_variant(AgentTypeNames, node), <<>>)

yaml_event(e) ==
    [event_type |-> yaml_variant(ActivityTypeNames, e.event_type),
     text |-> e.text, arg |-> yaml_str(e.arg), n |-> e.n]

parse_event(node) ==
    ActivityEvent(parse_variant(ActivityTypeNames, node.event_type),
                  node.text, parse_str(node.arg), node.n)

\* serde_yaml::to_string(session)
to_yaml(s) ==
    [name |-> yaml_str(s.name),
     agent_type |-> yaml_agent_type(s.agent_type),
     status |-> yaml_variant(SessionStatusNames, s.status),
     workbox_name |-> yaml_str(s.workbox_name),
     branch |-> yaml_str(s.branch),
     parent |-> yaml_option(s.parent),
     children |-> [i \in 1..Len(s.children) |-> yaml_str(s.children[i])],
     activity_log |-> [i \in 1..Len(s.activity_log) |-> yaml_event(s.activity_log[i])]]

\* serde_yaml::from_str(&content)
from_yaml(doc) ==
    [name |-> parse_str(doc.name),
     agent_type |-> parse_agent_type(doc.agent_type),
     status |-> parse_variant(SessionStatusNames, doc.status),
     workbox_name |-> parse_str(doc.workbox_name),
     branch |-> parse_str(doc.branch),
     parent |-> parse_option(doc.parent),
     children |-> [i \in 1..Len(doc.children) |-> parse_str(doc.children[i])],
     activity_log |-> [i \in 1..Len(doc.activity_log) |-> parse_event(doc.activity_log[i])]]

\* save_session and load_session through the file: the file of a session
\* holds the text written for it, and loading parses that text
save_yaml(st, s) == save_session(st, from_yaml(to_yaml(s)))

load_yaml(st, name) == st[name]

\* ------------------------------------- session.rs: list_sessions
\* a file of the sessions directory as list_sessions meets it: the text of
\* a session, text that does not parse as one, or bytes that are not text
SessionFile(name, status, last_active) ==
    [kind |-> "session", name |-> name, status |-> status, last_active |-> last_active]

GarbledFile(name) ==
    [kind |-> "garbled", name |-> name, status |-> "-", last_active |-> 0]

BinaryFile(name) ==
    [kind |-> "binary", name |-> name, status |-> "-", last_active |-> 0]

\* Vec::sort_by(|a, b| b.last_active.cmp(&a.last_active)) is a stable sort:
\* x goes behind every session that is at least as recent
RECURSIVE InsertByLastActive(_, _)
InsertByLastActive(sorted, x) ==
    IF sorted = <<>> THEN <<x>>
    ELSE IF sorted[1].last_active >= x.last_active
    THEN <<sorted[1]>> \o InsertByLastActive(Tail(sorted), x)
    ELSE <<x>> \o sorted

RECURSIVE SortByLastActive(_)
SortByLastActive(sessions) ==
    IF sessions = <<>> THEN <<>>
    ELSE InsertByLastActive(SortByLastActive(SubSeq(sessions, 1, Len(sessions) - 1)),
                            sessions[Len(sessions)])

\* the loop of list_sessions over the directory entries in the order
\* read_dir yields them: fs::read_to_string(&path)? returns the error of a
\* file that is not text, a text that does not parse is passed over
RECURSIVE read_entries(_, _, _, _)
read_entries(st, entries, i, sessions) ==
    IF i > Len(entries) THEN [err |-> "Ok", sessions |-> sessions]
    ELSE IF st[entries[i]].kind = "binary"
    THEN [err |-> "Io", sessions |-> sessions]
    ELSE IF st[entries[i]].kind = "garbled"
    THEN read_entries(st, entries, i + 1, sessions)
    ELSE read_entries(st, entries, i + 1, Append(sessions, st[entries[i]]))

\* SessionManager::list_sessions
list_sessions(st, entries) ==
    LET read == read_entries(st, entries, 1, <<>>)
    IN  IF read.err # "Ok" THEN [err |-> read.err, sessions |-> <<>>]
        ELSE [err |-> "Ok", sessions |-> SortByLastActive(read.sessions)]

\* Iterator::filter(|s| s.status == status)
RECURSIVE FilterStatus(_, _)
FilterStatus(sessions, status) ==
    IF sessions = <<>> THEN <<>>
    ELSE IF sessions[1].status = status
    THEN <<sessions[1]>> \o FilterStatus(Tail(sessions), status)
    ELSE FilterStatus(Tail(sessions), status)

\* SessionManager::list_sessions_by_status; the names returned, in order,
\* are what the command reports
list_sessions_by_status(st, entries, status) ==
    LET all == list_sessions(st, entries)
        found == FilterStatus(all.sessions, status)
    IN  IF all.err # "Ok" THEN Out(st, all.err, <<>>, NoReport)
        ELSE Out(st, "Ok", <<>>,
                 [done |-> Len(found), skipped |-> 0,
                  printed |-> [i \in 1..Len(found) |-> found[i].name]])

\* ------------------------------------- utilities.rs / collaboration.rs
\* UtilitiesManager::leave
leave(st, session_name, archive) ==
    IF ~session_exists(st, session_name)
    THEN Out(st, "SessionNotFound", <<>>, NoReport)
    ELSE IF archive
    THEN Out(save_session(st,
                 log_activity([st[session_name] EXCEPT !.status = "Archived"],
                     "StatusChanged", "Archived", NoName, 0)),
             "Ok", <<>>, NoReport)
    ELSE Out(save_session(st,
                 log_activity([st[session_name] EXCEPT !.status = "Paused"],
                     "StatusChanged", "Paused", NoName, 0)),
             "Ok", <<>>, NoReport)

\* CollaborationManager::handoff: the notes file is written into the
\* session's context directory before the record is touched; notes_ok is
\* whether that write succeeds
handoff(st, session_name, notes_ok) ==
    IF ~session_exists(st, session_name)
    THEN Out(st, "SessionNotFound", <<>>, NoReport)
    ELSE IF ~notes_ok
    THEN Out(st, "Io", <<>>, NoReport)
    ELSE Out(save_session(st,
                 log_activity([st[session_name] EXCEPT !.status = "Paused"],
                     "StatusChanged", "Handed off to", NoName, 0)),
             "Ok", <<>>, NoReport)

\* ------------------------------------- orchestration.rs: cascade / gather
\* str::contains on character sequences
IsSubstring(pat, text) ==
    \E i \in 0..(Len(text) - Len(pat)) :
        \A j \in 1..Len(pat) : text[i + j] = pat[j]

\* output.contains("conflict") || output.contains("CONFLICT")
has_conflict_marker(output) ==
    \/ IsSubstring(<<"c", "o", "n", "f", "l", "i", "c", "t">>, output)
    \/ IsSubstring(<<"C", "O", "N", "F", "L", "I", "C", "T">>, output)

\* texts a merge command may print
OutClean == <<"o", "k">>

OutConflictLower == <<"2", " ", "c", "o", "n", "f", "l", "i", "c", "t", "s">>

OutConflictUpper == <<"C", "O", "N", "F", "L", "I", "C", "T", " ", "x">>

\* stands for a non-zero exit of the command run by exec_in_workbox
ExecFail == <<"!">>

\* what the workspace client answers for one child: `info` is the VCS tag
\* reported by get_workbox_info ("fail" when the lookup fails) and `exec` is
\* the output of exec_in_workbox
Outcome(info, exec) == [info |-> info, exec |-> exec]

MergeCmd(vcs, verb, branch) == [vcs |-> vcs, verb |-> verb, branch |-> branch]

ChildResult(ret, st, cs, printed) ==
    [ret |-> ret, st |-> st, calls |-> cs, printed |-> printed]

\* a cascade_to_child that gives up on a child whose merge reports conflicts
cascade_merged_skip_conflicts(parent, child, output, cs, st) ==
    IF has_conflict_marker(output)
    THEN ChildResult("false", st, cs, "conflicts")
    ELSE ChildResult("true",
             save_session(st, log_activity(child, "Cascaded",
                 "Cascaded changes from parent", parent.name, 0)),
             cs, "merged")

\* Orchestrator::cascade_to_child once the merge command has returned
\* output: the conflict marker picks the printed line, then the child gets
\* its "cascaded" entry and is saved
cascade_merged(parent, child, output, cs, st) ==
    ChildResult("true",
        save_session(st, log_activity(child, "Cascaded",
            "Cascaded changes from parent", parent.name, 0)),
        cs,
        IF has_conflict_marker(output) THEN "conflicts" ELSE "merged")

\* a cascade_to_child that takes a workspace of unknown VCS for a git one
cascade_to_child_default_git(parent, child_name, dry_run, auto_snapshot, oc, st) ==
    IF ~session_exists(st, child_name)
    THEN ChildResult("err", st, <<>>, "failed")
    ELSE
    LET child == st[child_name]
        info == HnCall("get_workbox_info", child.workbox_name, NoCmd, <<oc.info>>)
        merge_cmd == IF oc.info = "jj"
                     THEN MergeCmd("jj", "rebase -d", parent.branch)
                     ELSE IF oc.info = "hg"
                     THEN MergeCmd("hg", "merge", parent.branch)
                     ELSE MergeCmd("git", "merge", parent.branch)
        snap == IF auto_snapshot
                THEN <<HnCall("create_snapshot", child.name, NoCmd, Done(TRUE))>>
                ELSE <<>>
        exec == HnCall("exec_in_workbox", child.workbox_name, merge_cmd, OutClean)
    IN  IF oc.info = "fail"
        THEN ChildResult("err", st, <<info>>, "failed")
        ELSE IF dry_run
        THEN ChildResult("false", st, <<info>>, "would run")
        ELSE IF oc.info \in {"git", "hg", "jj"} /\ oc.exec = ExecFail
        THEN ChildResult("err", st, <<info>> \o snap \o <<exec>>, "failed")
        ELSE cascade_merged(parent, child,
                 IF oc.info \in {"git", "hg", "jj"} THEN oc.exec ELSE OutClean,
                 <<info>> \o snap \o <<exec>>, st)

\* Orchestrator::cascade_to_child; ret is "true", "false" or "err"
cascade_to_child(parent, child_name, dry_run, auto_snapshot, oc, st) ==
    IF ~session_exists(st, child_name)
    THEN ChildResult("err", st, <<>>, "failed")
    ELSE
    LET child == st[child_name]
        info == HnCall("get_workbox_info", child.workbox_name, NoCmd, <<oc.info>>)
        merge_cmd == IF oc.info = "jj"
                     THEN MergeCmd("jj", "rebase -d", parent.branch)
                     ELSE MergeCmd(oc.info, "merge", parent.branch)
        snap == IF auto_snapshot
                THEN <<HnCall("create_snapshot", child.name, NoCmd, Done(TRUE))>>
                ELSE <<>>
        exec == HnCall("exec_in_workbox", child.workbox_name, merge_cmd, oc.exec)
    IN  IF oc.info = "fail"
        THEN ChildResult("err", st, <<info>>, "failed")
        ELSE IF oc.info \notin {"git", "hg", "jj"}
        THEN ChildResult("err", st, <<info>>, "failed")
        ELSE IF dry_run
        THEN ChildResult("false", st, <<info>>, "would run")
        ELSE IF oc.exec = ExecFail
        THEN ChildResult("err", st, <<info>> \o snap \o <<exec>>, "failed")
        ELSE cascade_merged(parent, child, oc.exec, <<info>> \o snap \o <<exec>>, st)

Acc(st, cs, done, skipped, printed) ==
    [st |-> st, calls |-> cs, done |-> done, skipped |-> skipped, printed |-> printed]

\* a fail-fast loop body: once a child has failed nothing more is processed
Tally_fail_fast(acc, r) ==
    IF \E i \in 1..Len(acc.printed) : acc.printed[i] = "failed"
    THEN acc
    ELSE Acc(r.st, acc.calls \o r.calls,
             acc.done + (IF r.ret = "true" THEN 1 ELSE 0),
             acc.skipped + (IF r.ret = "true" THEN 0 ELSE 1),
             Append(acc.printed, r.printed))

\* the match on the child's result in the loops of cascade and gather
Tally(acc, r) ==
    Acc(r.st, acc.calls \o r.calls,
        acc.done + (IF r.ret = "true" THEN 1 ELSE 0),
        acc.skipped + (IF r.ret = "true" THEN 0 ELSE 1),
        Append(acc.printed, r.printed))

\* a loop that walks the children list from its end
RECURSIVE cascade_loop_reversed(_, _, _, _, _, _)
cascade_loop_reversed(parent, i, dry_run, auto_snapshot, oc, acc) ==
    IF i > Len(parent.children) THEN acc
    ELSE cascade_loop_reversed(parent, i + 1, dry_run, auto_snapshot, oc,
             Tally(acc, cascade_to_child(parent,
                            parent.children[Len(parent.children) + 1 - i], dry_run,
                            auto_snapshot, oc[Len(parent.children) + 1 - i], acc.st)))

\* the for loop of Orchestrator::cascade, from child i on
RECURSIVE cascade_loop(_, _, _, _, _, _)
cascade_loop(parent, i, dry_run, auto_snapshot, oc, acc) ==
    IF i > Len(parent.children) THEN acc
    ELSE cascade_loop(parent, i + 1, dry_run, auto_snapshot, oc,
             Tally(acc, cascade_to_child(parent, parent.children[i], dry_run,
                                         auto_snapshot, oc[i], acc.st)))

\* Orchestrator::cascade
cascade(st, parent_name, dry_run, auto_snapshot, oc) ==
    IF ~session_exists(st, parent_name)
    THEN Out(st, "SessionNotFound", <<>>, NoReport)
    ELSE IF st[parent_name].children = <<>>
    THEN Out(st, "Ok", <<>>, NoReport)
    ELSE LET end == cascade_loop(st[parent_name], 1, dry_run, auto_snapshot, oc,
                                 Acc(st, <<>>, 0, 0, <<>>))
         IN  Out(end.st, "Ok", end.calls,
                 [done |-> end.done, skipped |-> end.skipped, printed |-> end.printed])

\* Orchestrator::gather_from_child; the workbox asked about and merged into
\* is the parent's
gather_from_child(parent, child_name, dry_run, oc, st) ==
    IF ~session_exists(st, child_name)
    THEN ChildResult("err", st, <<>>, "failed")
    ELSE
    LET child == st[child_name]
        info == HnCall("get_workbox_info", parent.workbox_name, NoCmd, <<oc.info>>)
        merge_cmd == IF oc.info = "jj"
                     THEN MergeCmd("jj", "rebase -s -d", child.branch)
                     ELSE MergeCmd(oc.info, "merge", child.branch)
        exec == HnCall("exec_in_workbox", parent.workbox_name, merge_cmd, oc.exec)
    IN  IF oc.info = "fail"
        THEN ChildResult("err", st, <<info>>, "failed")
        ELSE IF oc.info \notin {"git", "hg", "jj"}
        THEN ChildResult("err", st, <<info>>, "failed")
        ELSE IF dry_run
        THEN ChildResult("false", st, <<info>>, "would run")
        ELSE IF oc.exec = ExecFail
        THEN ChildResult("err", st, <<info, exec>>, "failed")
        ELSE ChildResult("true", st, <<info, exec>>,
                 IF has_conflict_marker(oc.exec) THEN "conflicts" ELSE "merged")

\* the for loop of Orchestrator::gather, from child i on
RECURSIVE gather_loop(_, _, _, _, _)
gather_loop(parent, i, dry_run, oc, acc) ==
    IF i > Len(parent.children) THEN acc
    ELSE gather_loop(parent, i + 1, dry_run, oc,
             Tally(acc, gather_from_child(parent, parent.children[i], dry_run,
                                          oc[i], acc.st)))

\* an end of gather that records the run whether or not it was a dry run
gather_finish_always(st, parent, dry_run, gathered) ==
    save_session(st, log_activity(parent, "Gathered", "Gathered children",
                                  NoName, gathered))

\* an end of gather that drops the children from the parent's list
gather_finish_detaching(st, parent, dry_run, gathered) ==
    IF dry_run THEN st
    ELSE save_session(st, log_activity([parent EXCEPT !.children = <<>>],
                              "Gathered", "Gathered children", NoName, gathered))

\* an end of gather that reports the number of children, merged or not
gather_finish_counting_all(st, parent, dry_run, gathered) ==
    IF dry_run THEN st
    ELSE save_session(st, log_activity(parent, "Gathered", "Gathered children",
                                       NoName, Len(parent.children)))

\* the end of Orchestrator::gather: unless dry_run, the parent loaded at the
\* start gets one "gathered" entry and is saved
gather_finish(st, parent, dry_run, gathered) ==
    IF dry_run THEN st
    ELSE save_session(st, log_activity(parent, "Gathered", "Gathered children",
                                       NoName, gathered))

\* Orchestrator::gather
gather(st, parent_name, dry_run, auto_snapshot, oc) ==
    IF ~session_exists(st, parent_name)
    THEN Out(st, "SessionNotFound", <<>>, NoReport)
    ELSE IF st[parent_name].children = <<>>
    THEN Out(st, "Ok", <<>>, NoReport)
    ELSE LET parent == st[parent_name]
             snap == IF ~dry_run /\ auto_snapshot
                     THEN <<HnCall("create_snapshot", parent.name, NoCmd, Done(TRUE))>>
                     ELSE <<>>
             end == gather_loop(parent, 1, dry_run, oc, Acc(st, snap, 0, 0, <<>>))
             rep == [done |-> end.done, skipped |-> end.skipped,
                     printed |-> end.printed]
         IN  Out(gather_finish(end.st, parent, dry_run, end.done), "Ok", end.calls, rep)

\* the session as the loop has seen it after k iterations
Seen(parent, k) == [parent EXCEPT !.children = SubSeq(parent.children, 1, k)]

\* Orchestrator::cascade (without dry_run) stopped from outside after k
\* iterations of its loop; with `mid` the process dies inside iteration
\* k + 1, after that child's delegated calls and before the child is logged,
\* saved and counted
cascade_upto(st, parent_name, auto_snapshot, oc, k, mid) ==
    IF ~session_exists(st, parent_name)
    THEN Out(st, "SessionNotFound", <<>>, NoReport)
    ELSE IF st[parent_name].children = <<>>
    THEN Out(st, "Ok", <<>>, NoReport)
    ELSE LET parent == st[parent_name]
             end == cascade_loop(Seen(parent, k), 1, FALSE, auto_snapshot, oc,
                                 Acc(st, <<>>, 0, 0, <<>>))
             cut == IF mid /\ k < Len(parent.children)
                    THEN cascade_to_child(parent, parent.children[k + 1], FALSE,
                                          auto_snapshot, oc[k + 1], end.st).calls
                    ELSE <<>>
         IN  Out(end.st, "Interrupted", end.calls \o cut,
                 [done |-> end.done, skipped |-> end.skipped, printed |-> end.printed])

\* Orchestrator::gather (without dry_run) stopped the same way; the parent
\* is logged and saved only after the loop, so an interrupted gather never
\* gets there
gather_upto(st, parent_name, auto_snapshot, oc, k, mid) ==
    IF ~session_exists(st, parent_name)
    THEN Out(st, "SessionNotFound", <<>>, NoReport)
    ELSE IF st[parent_name].children = <<>>
    THEN Out(st, "Ok", <<>>, NoReport)
    ELSE LET parent == st[parent_name]
             snap == IF auto_snapshot
                     THEN <<HnCall("create_snapshot", parent.name, NoCmd, Done(TRUE))>>
                     ELSE <<>>
             end == gather_loop(Seen(parent, k), 1, FALSE, oc, Acc(st, snap, 0, 0, <<>>))
             cut == IF mid /\ k < Len(parent.children)
                    THEN gather_from_child(parent, parent.children[k + 1], FALSE,
                                           oc[k + 1], end.st).calls
                    ELSE <<>>
         IN  Out(end.st, "Interrupted", end.calls \o cut,
                 [done |-> end.done, skipped |-> end.skipped, printed |-> end.printed])

\* ------------------------------------- collaboration.rs: merge_sessions
StrategyVerb(strategy) ==
    IF strategy = "squash" THEN "merge --squash"
    ELSE IF strategy = "no-ff" THEN "merge --no-ff"
    ELSE "merge"

MergeAcc(err, target, cs, printed) ==
    [err |-> err, target |-> target, calls |-> cs, printed |-> printed]

\* the for loop of CollaborationManager::merge_sessions, from source i on:
\* a source that fails to load returns the error at once, a failed merge
\* command only skips the source
RECURSIVE merge_loop(_, _, _, _, _, _)
merge_loop(st, sources, i, strategy, outs, acc) ==
    IF i > Len(sources) THEN acc
    ELSE IF ~session_exists(st, sources[i])
    THEN [acc EXCEPT !.err = "SessionNotFound"]
    ELSE
    LET exec == HnCall("exec_in_workbox", acc.target.workbox_name,
                       MergeCmd("git", StrategyVerb(strategy), st[sources[i]].branch),
                       outs[i])
    IN  IF outs[i] = ExecFail
        THEN merge_loop(st, sources, i + 1, strategy, outs,
                 MergeAcc(acc.err, acc.target, Append(acc.calls, exec),
                          Append(acc.printed, "failed")))
        ELSE merge_loop(st, sources, i + 1, strategy, outs,
                 MergeAcc(acc.err, remove_child(acc.target, sources[i]),
                          Append(acc.calls, exec),
                          Append(acc.printed,
                              IF has_conflict_marker(outs[i]) THEN "conflicts"
                              ELSE "merged")))

\* CollaborationManager::merge_sessions
merge_sessions(st, target, sources, strategy, info_ok, outs) ==
    IF ~session_exists(st, target)
    THEN Out(st, "SessionNotFound", <<>>, NoReport)
    ELSE
    LET info == HnCall("get_workbox_info", st[target].workbox_name, NoCmd, Done(info_ok))
        end == merge_loop(st, sources, 1, strategy, outs,
                          MergeAcc("Ok", st[target], <<info>>, <<>>))
        rep == [done |-> 0, skipped |-> 0, printed |-> end.printed]
    IN  IF ~info_ok
        THEN Out(st, "WorkboxNotFound", <<info>>, NoReport)
        ELSE IF end.err # "Ok"
        THEN Out(st, end.err, end.calls, rep)
        ELSE Out(save_session(st, log_activity(end.target, "Integrated",
                     "Merged sessions", NoName, Len(sources))),
                 "Ok", end.calls, rep)

\* ------------------------------------------------------ tree traversals
\* the value of a traversal and the names of the sessions it collected
Walk(res, tree) == [res |-> res, tree |-> tree]

RECURSIVE get_session_tree(_, _, _)
RECURSIVE tree_children(_, _, _, _, _)

\* SessionManager::get_session_tree.  `open` holds the names whose calls
\* have not returned yet: a call for one of them reads the same record as
\* the open call and makes the same calls again, so the recursion never
\* returns and ends when the thread's stack is exhausted
get_session_tree(st, name, open) ==
    IF ~session_exists(st, name)
    THEN Walk("SessionNotFound", <<>>)
    ELSE IF name \in open
    THEN Walk("StackOverflow", <<>>)
    ELSE tree_children(st, st[name].children, 1, <<name>>, open \cup {name})

\* the loop over the children: a subtree that fails to load is passed over
tree_children(st, children, i, tree, open) ==
    IF i > Len(children)
    THEN Walk("Ok", tree)
    ELSE LET sub == get_session_tree(st, children[i], open) IN
         IF sub.res = "StackOverflow"
         THEN sub
         ELSE tree_children(st, children, i + 1,
                            IF sub.res = "Ok" THEN tree \o sub.tree ELSE tree, open)

RECURSIVE print_tree_node(_, _, _)
RECURSIVE print_children(_, _, _, _, _)

\* Orchestrator::print_tree_node over the listed sessions: the line of the
\* session, then its children that are among the listed sessions
print_tree_node(st, name, open) ==
    IF name \in open
    THEN Walk("StackOverflow", <<>>)
    ELSE print_children(st, st[name].children, 1, <<name>>, open \cup {name})

print_children(st, children, i, lines, open) ==
    IF i > Len(children)
    THEN Walk("Ok", lines)
    ELSE IF ~session_exists(st, children[i])
    THEN print_children(st, children, i + 1, lines, open)
    ELSE LET sub == print_tree_node(st, children[i], open) IN
         IF sub.res = "StackOverflow"
         THEN sub
         ELSE print_children(st, children, i + 1, lines \o sub.tree, open)

RECURSIVE print_roots(_, _, _, _)

print_roots(st, roots, i, lines) ==
    IF i > Len(roots)
    THEN Walk("Ok", lines)
    ELSE LET sub == print_tree_node(st, roots[i], {}) IN
         IF sub.res = "StackOverflow"
         THEN sub
         ELSE print_roots(st, roots, i + 1, lines \o sub.tree)

RECURSIVE Parentless(_, _)

\* the listed sessions that have no parent, in the order of the listing
Parentless(st, sessions) ==
    IF sessions = <<>>
    THEN <<>>
    ELSE (IF st[Head(sessions)].parent = {} THEN <<Head(sessions)>> ELSE <<>>)
             \o Parentless(st, Tail(sessions))

\* Orchestrator::show_tree: `sessions` is the listing, root_name an
\* Option
show_tree(st, sessions, root_name) ==
    IF sessions = <<>>
    THEN Walk("Ok", <<>>)
    ELSE IF root_name # {} /\ \E n \in root_name : ~session_exists(st, n)
    THEN Walk("SessionNotFound", <<>>)
    ELSE print_roots(st, IF root_name = {}
                         THEN Parentless(st, sessions)
                         ELSE <<CHOOSE n \in root_name : TRUE>>, 1, <<>>)

RECURSIVE LoadedChildren(_, _, _)

\* SessionManager::get_children, after the parent loaded: the children
\* that load, in the stored order
LoadedChildren(st, children, i) ==
    IF i > Len(children)
    THEN <<>>
    ELSE (IF session_exists(st, children[i]) THEN <<children[i]>> ELSE <<>>)
             \o LoadedChildren(st, children, i + 1)

\* a queued name together with the names it was reached through
Queued(name, via) == [name |-> name, via |-> via]

RECURSIVE QueueAll(_, _, _)

QueueAll(names, via, i) ==
    IF i > Len(names)
    THEN <<>>
    ELSE <<Queued(names[i], via)>> \o QueueAll(names, via, i + 1)

RECURSIVE descendants_loop(_, _, _)

\* the `while let Some(name) = queue.pop()` of AiTool::get_all_descendants.
\* A name popped that was reached through itself is expanded as before,
\* again and again: the loop never ends and `descendants` grows until
\* memory is exhausted
descendants_loop(st, queue, descendants) ==
    IF queue = <<>>
    THEN Walk("Ok", descendants)
    ELSE LET last == queue[Len(queue)]
             rest == SubSeq(queue, 1, Len(queue) - 1)
         IN  IF ~session_exists(st, last.name)
             THEN Walk("SessionNotFound", <<>>)
             ELSE IF last.name \in last.via
             THEN Walk("OutOfMemory", <<>>)
             ELSE LET children == LoadedChildren(st, st[last.name].children, 1) IN
                  descendants_loop(st,
                      rest \o QueueAll(children, last.via \cup {last.name}, 1),
                      descendants \o children)

get_all_descendants(st, session_name) ==
    descendants_loop(st, <<Queued(session_name, {})>>, <<>>)

\* a traversal leaves the store alone and hands back the names it collected
OutWalk(st, w) ==
    Out(st, w.res, <<>>, [done |-> Len(w.tree), skipped |-> 0, printed |-> w.tree])

\* ------------------------------------------ invocations running at once
\* two invocations of the tool working on the one sessions directory
Procs == {"first", "second"}

\* where an invocation of link_parent_child stands, the names it was given,
\* its in-memory `parent` and `child`, and the ticks at which it wrote them
\* (0: not written)
Frame(pc, parent_name, child_name, parent, child, parent_saved, child_saved) ==
    [pc |-> pc, parent_name |-> parent_name, child_name |-> child_name,
     parent |-> parent, child |-> child,
     parent_saved |-> parent_saved, child_saved |-> child_saved]

NoSession == SessionNew(NoName, NoName, NoName)

Idle == Frame("idle", NoName, NoName, NoSession, NoSession, 0, 0)

\* link_parent_child up to its first load: the parent is read
link_load_parent(st, f, parent_name, child_name) ==
    IF ~session_exists(st, parent_name)
    THEN Frame("failed", parent_name, child_name, NoSession, NoSession, 0, 0)
    ELSE Frame("load_child", parent_name, child_name, st[parent_name], NoSession, 0, 0)

\* the child is read and both copies are updated in memory
link_load_child(st, f) ==
    IF ~session_exists(st, f.child_name)
    THEN [f EXCEPT !.pc = "failed", !.parent = NoSession]
    ELSE [f EXCEPT
             !.pc = "save_parent",
             !.parent = log_activity(add_child(f.parent, f.child_name),
                            "ChildAdded", "Added child session", f.child_name, 0),
             !.child = log_activity([st[f.child_name] EXCEPT !.parent = {f.parent_name}],
                           "ParentLinked", "Linked to parent session", f.parent_name, 0)]

\* ------------------------------------------------------------- the state
\* store: the sessions directory; op, result, calls, report: the last
\* command, the value it returned, the delegated calls it made and the
\* counts and per-child lines it printed; issued: commands issued so far
Init ==
    /\ store = <<>>
    /\ op = Op("init", NoName, NoName, FALSE, "-")
    /\ result = "Ok"
    /\ calls = <<>>
    /\ report = NoReport
    /\ issued = 0
    /\ running = [p \in Procs |-> Idle]

Do(o, out) ==
    /\ op' = o
    /\ store' = out.st
    /\ result' = out.result
    /\ calls' = out.calls
    /\ report' = out.report
    /\ running' = running

Within(bound) ==
    /\ issued < bound
    /\ issued' = issued + 1

NumChildren(name) ==
    IF session_exists(store, name) THEN Len(store[name].children) ELSE 0

\* dry_run and the auto_snapshot setting of one cascade or gather; a dry
\* run is tried with snapshots enabled, where it has the most to skip
Modes == {<<TRUE, TRUE>>, <<FALSE, TRUE>>, <<FALSE, FALSE>>}

Setting(auto_snapshot) == IF auto_snapshot THEN "auto_snapshot" ELSE "-"

\* answers of the workspace client tried for each child
Outcomes ==
    {Outcome("fail", ExecFail), Outcome("svn", ExecFail),
     Outcome("git", ExecFail), Outcome("git", OutClean),
     Outcome("hg", OutConflictUpper), Outcome("jj", OutConflictLower)}

\* sessions cascade and gather are run on: a, under which the trees hang,
\* and b, which has no children
Parents == {<<"a">>, <<"b">>}

\* answers tried for the children after the first
LaterOutcomes ==
    {Outcome("fail", ExecFail), Outcome("git", OutClean)}

\* the answers given during one cascade or gather over n children
OutcomeRuns(n) ==
    {oc \in [1..n -> Outcomes] : \A i \in 2..n : oc[i] \in LaterOutcomes}

\* a run of merge_sessions: the strategy asked for, whether the target's
\* workbox is found, and what the merge command prints for every source
MergeRun(strategy, info_ok, output) ==
    [strategy |-> strategy, info_ok |-> info_ok, output |-> output]

MergeRuns ==
    {MergeRun("squash", FALSE, ExecFail), MergeRun("squash", TRUE, ExecFail),
     MergeRun("merge", TRUE, OutClean), MergeRun("no-ff", TRUE, OutConflictUpper)}

SourceLists == UNION {[1..n -> ValidNames] : n \in 1..MaxSources}

\* ---------------------------------------------------------- the commands
\* sessions are created freely; every other command counts against the
\* bound of the run
Create ==
    /\ \E n \in ValidNames, ok \in BOOLEAN :
           Do(Op("create_session", n, NoName, FALSE, "-"), create_session(store, n, ok))
    /\ UNCHANGED issued

Delete(bound) ==
    /\ Within(bound)
    /\ \E n \in ValidNames :
           Do(Op("delete_session", n, NoName, FALSE, "-"), delete_session(store, n))

Link(bound) ==
    /\ Within(bound)
    /\ \E p \in ValidNames, c \in ValidNames :
           Do(Op("link_parent_child", p, c, FALSE, "-"), link_parent_child(store, p, c))

Unlink(bound) ==
    /\ Within(bound)
    /\ \E c \in ValidNames :
           Do(Op("unlink_parent_child", c, NoName, FALSE, "-"),
              unlink_parent_child(store, c))

Clone ==
    /\ Within(MaxOps)
    /\ \E n \in ValidNames, m \in ValidNames, ok \in BOOLEAN :
           Do(Op("clone_session", n, m, FALSE, "-"), clone_session(store, n, m, ok))

CollabClone ==
    /\ Within(MaxOps)
    /\ \E n \in ValidNames, m \in ValidNames, d \in BOOLEAN, ok \in BOOLEAN :
           Do(Op("collab_clone_session", n, m, d, "-"),
              collab_clone_session(store, n, m, d, ok, ok))

Merge ==
    /\ Within(MaxOps)
    /\ \E t \in ValidNames, srcs \in SourceLists, r \in MergeRuns :
           Do(Op("merge_sessions", t, srcs[1], FALSE, r.strategy),
              merge_sessions(store, t, srcs, r.strategy, r.info_ok,
                             [i \in 1..Len(srcs) |-> r.output]))

\* one or two sources, each with its own merge output
SourcePairs ==
    {<<x>> : x \in ValidNames} \cup {<<x, y>> : x \in ValidNames, y \in ValidNames}

MergeOutputs(sources) ==
    {outs \in [1..Len(sources) -> {ExecFail, OutClean, OutConflictUpper}] :
        \A i \in 2..Len(sources) : outs[i] \in {ExecFail, OutClean}}

\* `hp collab merge <target> <sources..>` on the trees built by `hp new`
MergeMany ==
    /\ Within(MaxMergeOps)
    /\ \E t \in Parents, srcs \in SourcePairs, strategy \in {"merge", "no-ff"},
          info_ok \in BOOLEAN :
           \E outs \in MergeOutputs(srcs) :
               Do(Op("merge_sessions", t, srcs[1], FALSE, strategy),
                  merge_sessions(store, t, srcs, strategy, info_ok, outs))

\* `hp new <name> [--parent a]`: the trees cascaded and gathered hang under a
CmdNew ==
    /\ \E n \in ValidNames, parent \in {{}, {<<"a">>}} :
           Do(Op("cmd_new", n, IF parent = {} THEN NoName ELSE CHOOSE p \in parent : TRUE,
                 parent # {}, "-"),
              cmd_new(store, n, parent, TRUE))
    /\ UNCHANGED issued

Cascade ==
    /\ Within(MaxOrchOps)
    /\ \E p \in Parents, m \in Modes :
           \E oc \in OutcomeRuns(NumChildren(p)) :
               Do(Op("cascade", p, NoName, m[1], Setting(m[2])), cascade(store, p, m[1], m[2], oc))

Gather ==
    /\ Within(MaxOrchOps)
    /\ \E p \in Parents, m \in Modes :
           \E oc \in OutcomeRuns(NumChildren(p)) :
               Do(Op("gather", p, NoName, m[1], Setting(m[2])), gather(store, p, m[1], m[2], oc))

\* a cascade or gather killed at some point of its loop
CascadeInterrupted ==
    /\ Within(MaxInterruptOps)
    /\ \E p \in Parents, snap \in BOOLEAN, mid \in BOOLEAN :
           \E oc \in OutcomeRuns(NumChildren(p)), k \in 0..NumChildren(p) :
               Do(Op("cascade", p, NoName, FALSE, Setting(snap)),
                  cascade_upto(store, p, snap, oc, k, mid))

GatherInterrupted ==
    /\ Within(MaxInterruptOps)
    /\ \E p \in Parents, snap \in BOOLEAN, mid \in BOOLEAN :
           \E oc \in OutcomeRuns(NumChildren(p)), k \in 0..NumChildren(p) :
               Do(Op("gather", p, NoName, FALSE, Setting(snap)),
                  gather_upto(store, p, snap, oc, k, mid))

\* sessions whose status is worked on
Subjects == {<<"a">>, <<"b">>}

\* remove_workbox and the outcome of `hn remove`
Removals == {<<FALSE, TRUE>>, <<TRUE, TRUE>>, <<TRUE, FALSE>>}

Close ==
    /\ Within(MaxStatusOps)
    /\ \E n \in Subjects, status \in SessionStatus, r \in Removals :
           Do(Op("close_session", n, NoName, r[1], status),
              close_session(store, n, status, r[1], r[2]))

Leave ==
    /\ Within(MaxStatusOps)
    /\ \E n \in Subjects, archive \in BOOLEAN :
           Do(Op("leave", n, NoName, archive, "-"), leave(store, n, archive))

Handoff ==
    /\ Within(MaxStatusOps)
    /\ \E n \in Subjects, notes_ok \in BOOLEAN :
           Do(Op("handoff", n, NoName, FALSE, "-"), handoff(store, n, notes_ok))

\* session values written to the session file: names and references that
\* read as YAML null, a custom agent type, one named like a built-in one,
\* a parent, children, a logged event
NullName == <<"n", "u", "l", "l">>

TildeName == <<"~">>

AgentTypes ==
    {AgentType("Feature", <<>>), AgentType("Custom", <<"q", "a">>),
     AgentType("Custom", AgentTypeNames.Feature)}

\* a session that has children has logged an event
Histories ==
    {[children |-> <<>>, activity_log |-> <<>>],
     [children |-> <<<<"c">>, NullName>>,
      activity_log |-> <<ActivityEvent("ChildAdded", "Added child session", TildeName, 0)>>]}

SessionValues ==
    {[name |-> n, agent_type |-> a, status |-> st, workbox_name |-> <<"w">>,
      branch |-> <<"a">>, parent |-> p, children |-> h.children,
      activity_log |-> h.activity_log] :
        n \in {<<"a">>, NullName}, a \in AgentTypes, st \in {"Active", "Paused"},
        p \in {{}, {TildeName}}, h \in Histories}

\* save_session(&session) for any session value
SaveValue ==
    /\ Within(MaxYamlOps)
    /\ \E s \in SessionValues :
           Do(Op("save_session", s.name, NoName, FALSE, "-"),
              Out(save_yaml(store, s), "Ok", <<>>, NoReport))

\* load_session(name) followed by save_session of what was loaded
LoadSave ==
    /\ Within(MaxYamlOps)
    /\ \E n \in {<<"a">>, NullName} :
           Do(Op("load_save", n, NoName, FALSE, "-"),
              IF session_exists(store, n)
              THEN Out(save_yaml(store, load_yaml(store, n)), "Ok", <<>>, NoReport)
              ELSE Out(store, "SessionNotFound", <<>>, NoReport))

\* files found in the sessions directory
Files(name) ==
    {SessionFile(name, st, t) : st \in {"Active", "Archived"}, t \in 1..MaxTime}
        \cup {GarbledFile(name), BinaryFile(name)}

\* the orders in which read_dir may yield the entries of the directory
Orders(names) ==
    {o \in [1..Cardinality(names) -> names] :
        \A i, j \in 1..Cardinality(names) : i # j => o[i] # o[j]}

\* a session file appears in, or is replaced in, the sessions directory
PutFile ==
    /\ \E n \in ValidNames : \E f \in Files(n) :
           Do(Op("put_file", n, NoName, FALSE, f.kind),
              Out(save_session(store, f), "Ok", <<>>, NoReport))
    /\ UNCHANGED issued

ListByStatus ==
    /\ Within(MaxListOps)
    /\ \E status \in {"Active", "Archived"}, entries \in Orders(DOMAIN store) :
           Do(Op("list_sessions_by_status", NoName, NoName, FALSE, status),
              list_sessions_by_status(store, entries, status))

\* the three traversals, each from any name; the order of the listing
\* matters to show_tree only when it prints every parentless session
GetSessionTree ==
    /\ \E n \in ValidNames :
           Do(Op("get_session_tree", n, NoName, FALSE, "-"),
              OutWalk(store, get_session_tree(store, n, {})))
    /\ UNCHANGED issued

ShowTree ==
    /\ \E root_name \in {{}} \cup {{n} : n \in ValidNames} :
       \E sessions \in IF root_name = {} THEN Orders(DOMAIN store)
                        ELSE {CHOOSE o \in Orders(DOMAIN store) : TRUE} :
           Do(Op("show_tree", IF root_name = {} THEN NoName
                              ELSE CHOOSE n \in root_name : TRUE,
                 NoName, root_name # {}, "-"),
              OutWalk(store, show_tree(store, sessions, root_name)))
    /\ UNCHANGED issued

GetAllDescendants ==
    /\ \E n \in ValidNames :
           Do(Op("get_all_descendants", n, NoName, FALSE, "-"),
              OutWalk(store, get_all_descendants(store, n)))
    /\ UNCHANGED issued

\* one invocation of link_parent_child taken a file access at a time
LinkLoadParent(p) ==
    /\ running[p].pc = "idle"
    /\ \E parent_name \in ValidNames, child_name \in ValidNames :
           /\ running' = [running EXCEPT
                  ![p] = link_load_parent(store, @, parent_name, child_name)]
           /\ op' = Op("link_parent_child", parent_name, child_name, FALSE, "load_parent")
           /\ result' = IF running'[p].pc = "failed" THEN "SessionNotFound" ELSE "Ok"
    /\ issued' = issued + 1
    /\ UNCHANGED <<store, calls, report>>

LinkLoadChild(p) ==
    /\ running[p].pc = "load_child"
    /\ running' = [running EXCEPT ![p] = link_load_child(store, @)]
    /\ op' = Op("link_parent_child", running[p].parent_name, running[p].child_name,
                FALSE, "load_child")
    /\ result' = IF running'[p].pc = "failed" THEN "SessionNotFound" ELSE "Ok"
    /\ issued' = issued + 1
    /\ UNCHANGED <<store, calls, report>>

LinkSaveParent(p) ==
    /\ running[p].pc = "save_parent"
    /\ store' = save_session(store, running[p].parent)
    /\ issued' = issued + 1
    /\ running' = [running EXCEPT ![p].pc = "save_child", ![p].parent_saved = issued']
    /\ op' = Op("link_parent_child", running[p].parent_name, running[p].child_name,
                FALSE, "save_parent")
    /\ result' = "Ok"
    /\ UNCHANGED <<calls, report>>

LinkSaveChild(p) ==
    /\ running[p].pc = "save_child"
    /\ store' = save_session(store, running[p].child)
    /\ issued' = issued + 1
    /\ running' = [running EXCEPT ![p].pc = "done", ![p].child_saved = issued']
    /\ op' = Op("link_parent_child", running[p].parent_name, running[p].child_name,
                FALSE, "save_child")
    /\ result' = "Ok"
    /\ UNCHANGED <<calls, report>>

\* names tried where the code does not validate them
CreateAnyName ==
    /\ \E n \in {<<"a">>, DotsName} \cup InvalidNames, ok \in BOOLEAN :
           Do(Op("create_session", n, NoName, FALSE, "-"), create_session(store, n, ok))
    /\ UNCHANGED issued

CloneAnyName ==
    /\ Within(MaxNameOps)
    /\ \E n \in {<<"a">>, EmptyName}, m \in {<<"a">>, EmptyName, BackslashName},
          ok \in BOOLEAN :
           Do(Op("clone_session", n, m, FALSE, "-"), clone_session(store, n, m, ok))

CollabCloneAnyName ==
    /\ Within(MaxNameOps)
    /\ \E n \in {<<"a">>, EmptyName}, m \in {<<"a">>, EmptyName, BackslashName},
          d \in BOOLEAN, ok \in BOOLEAN :
           Do(Op("collab_clone_session", n, m, d, "-"),
              collab_clone_session(store, n, m, d, ok, ok))

DeleteAnyName ==
    /\ Within(MaxNameOps)
    /\ \E n \in {<<"a">>, EmptyName, BackslashName} :
           Do(Op("delete_session", n, NoName, FALSE, "-"), delete_session(store, n))

\* ------------------------------------------------------ the specifications
\* every operation that writes parent or children
Next ==
    \/ Create
    \/ Delete(MaxOps)
    \/ Link(MaxOps)
    \/ Unlink(MaxOps)
    \/ Clone
    \/ CollabClone
    \/ Merge

Spec == Init /\ [][Next]_vars

\* link_parent_child and unlink_parent_child alone
NextLink ==
    \/ Create
    \/ Link(MaxLinkOps)
    \/ Unlink(MaxLinkOps)

SpecLink == Init /\ [][NextLink]_vars

\* trees built by `hp new --parent`, then cascade and gather
NextOrch ==
    \/ CmdNew
    \/ Delete(MaxOrchOps)
    \/ Cascade
    \/ Gather

SpecOrch == Init /\ [][NextOrch]_vars

\* cascade and gather stopped part-way through a tree
NextInterrupt ==
    \/ CmdNew
    \/ Delete(MaxInterruptOps)
    \/ CascadeInterrupted
    \/ GatherInterrupted

SpecInterrupt == Init /\ [][NextInterrupt]_vars

\* merge_sessions over one or two sources
NextMerge ==
    \/ CmdNew
    \/ MergeMany

SpecMerge == Init /\ [][NextMerge]_vars

\* the operations that write a session's status
NextStatus ==
    \/ Create
    \/ Delete(MaxStatusOps)
    \/ Close
    \/ Leave
    \/ Handoff

SpecStatus == Init /\ [][NextStatus]_vars

\* session records written to and read from their files
NextYaml ==
    \/ SaveValue
    \/ LoadSave

SpecYaml == Init /\ [][NextYaml]_vars

\* listings of a sessions directory holding sound and unsound files
NextList ==
    \/ PutFile
    \/ ListByStatus

SpecList == Init /\ [][NextList]_vars

\* hierarchies built by linking and deleting, and the walks over them
NextTree ==
    \/ Create
    \/ Link(MaxTreeOps)
    \/ Delete(MaxTreeOps)
    \/ GetSessionTree
    \/ ShowTree
    \/ GetAllDescendants

SpecTree == Init /\ [][NextTree]_vars

\* two invocations of link_parent_child interleaved at their file accesses
NextRace ==
    \/ Create
    \/ \E p \in Procs : LinkLoadParent(p)
    \/ \E p \in Procs : LinkLoadChild(p)
    \/ \E p \in Procs : LinkSaveParent(p)
    \/ \E p \in Procs : LinkSaveChild(p)

SpecRace == Init /\ [][NextRace]_vars

\* every operation that writes to the log of a record it found persisted;
\* the hierarchy is linked and merged first, then worked on
NextLog ==
    \/ Create
    \/ Link(MaxMergeOps)
    \/ Unlink(MaxOps)
    \/ Close
    \/ Leave
    \/ Handoff
    \/ Cascade
    \/ Gather
    \/ MergeMany

SpecLog == Init /\ [][NextLog]_vars

\* creation and cloning under valid and invalid names
NextNames ==
    \/ CreateAnyName
    \/ CloneAnyName
    \/ CollabCloneAnyName
    \/ DeleteAnyName

SpecNames == Init /\ [][NextNames]_vars

\* ------------------------------------------------------------- properties
Count(seq, x) == Cardinality({i \in 1..Len(seq) : seq[i] = x})

\* C1: no two persisted sessions share a name, and create(name) issued
\* while a record named `name` is persisted fails with already-exists,
\* provisions no workspace and changes no record
C1_CreateOnExistingName ==
    /\ [](\A k \in DOMAIN store : store[k].name = k)
    /\ [][(op'.name = "create_session" /\ op'.a \in DOMAIN store)
             => (/\ result' = "SessionAlreadyExists"
                 /\ calls' = <<>>
                 /\ store' = store)]_vars

\* C2: right after link_parent_child(A, B) succeeds, B.parent is A and
\* A.children contains B, also when A = B
C2_LinkSymmetric ==
    (op.name = "link_parent_child" /\ result = "Ok")
        => (/\ store[op.b].parent = {op.a}
            /\ Contains(store[op.a].children, op.b))

\* C3: right after unlink_parent_child(B) succeeds, B has no parent and no
\* persisted session lists B among its children
C3_UnlinkClears ==
    (op.name = "unlink_parent_child" /\ result = "Ok")
        => (/\ store[op.a].parent = {}
            /\ \A k \in DOMAIN store : ~Contains(store[k].children, op.a))

\* C4: whenever a persisted session A names B as its parent, the persisted
\* record of B lists A among its children
C4_ParentListsChild ==
    \A k \in DOMAIN store : \A p \in store[k].parent :
        /\ p \in DOMAIN store
        /\ Contains(store[p].children, k)

\* C5: no session name is in the children lists of two different persisted
\* sessions
C5_AtMostOneParent ==
    \A k1 \in DOMAIN store, k2 \in DOMAIN store :
        k1 # k2 => ~\E c \in ValidNames :
                      Contains(store[k1].children, c) /\ Contains(store[k2].children, c)

ChildEdge(x, y) == x \in DOMAIN store /\ Contains(store[x].children, y)

ParentEdge(x, y) == x \in DOMAIN store /\ y \in store[x].parent

\* x reaches itself in one, two or three steps of the relation
OnCycle(Edge(_, _), x) ==
    \/ Edge(x, x)
    \/ \E y \in ValidNames : Edge(x, y) /\ Edge(y, x)
    \/ \E y \in ValidNames, z \in ValidNames : Edge(x, y) /\ Edge(y, z) /\ Edge(z, x)

\* C6: the parent/children relation is acyclic: no session reaches itself
\* through children lists, none is its own ancestor through parent references
C6_Acyclic ==
    \A x \in ValidNames : ~OnCycle(ChildEdge, x) /\ ~OnCycle(ParentEdge, x)

\* C7: no children list holds a name twice; linking the same child to the
\* same parent again leaves it listed once
C7_NoDuplicateChildren ==
    \A k \in DOMAIN store : \A c \in ValidNames : Count(store[k].children, c) <= 1

\* a parent to which the same child has just been linked for the second time
C7_LinkedTwice ==
    /\ op.name = "link_parent_child" /\ result = "Ok" /\ op.a # op.b
    /\ Count(store[op.a].children, op.b) = 1
    /\ Cardinality({i \in 1..Len(store[op.a].activity_log) :
           /\ store[op.a].activity_log[i].event_type = "ChildAdded"
           /\ store[op.a].activity_log[i].arg = op.b}) >= 2

\* ------------------------------------------------ cascade and gather
IsOrch(o) == o.name \in {"cascade", "gather"}

\* calls that run a merge command or take a snapshot
Touching(cs) ==
    {i \in 1..Len(cs) : cs[i].call \in {"exec_in_workbox", "create_snapshot"}}

\* merge commands that ran and returned output
Ran(cs) ==
    {i \in 1..Len(cs) : cs[i].call = "exec_in_workbox" /\ cs[i].answer # ExecFail}

\* delegated calls that failed: a failed or unusable workspace-info answer,
\* or a merge command that exited non-zero
FailedCalls(cs) ==
    {i \in 1..Len(cs) :
        \/ cs[i].call = "get_workbox_info" /\ cs[i].answer[1] \notin {"git", "hg", "jj"}
        \/ cs[i].call = "exec_in_workbox" /\ cs[i].answer = ExecFail}

\* children of `name` whose record cannot be loaded
MissingChildren(st, name) ==
    {i \in 1..Len(st[name].children) : st[name].children[i] \notin DOMAIN st}

\* C8 (as stated): a cascade or gather with dry_run = true writes no
\* session record, runs no merge command, takes no snapshot, counts every
\* child as skipped and returns success
C8_DryRunAlwaysSucceeds ==
    [][(IsOrch(op') /\ op'.flag)
          => (/\ store' = store
              /\ Touching(calls') = {}
              /\ report'.done = 0
              /\ report'.skipped = NumChildren(op'.a)
              /\ result' = "Ok")]_vars

\* C8 (amended): a cascade or gather with dry_run = true writes no session
\* record, runs no merge command and takes no snapshot; when the parent
\* record loads it counts every child as skipped and returns success, and
\* when the parent record does not load it fails with session-not-found
\* having made no delegated call
C8_DryRunNoOp ==
    [][(IsOrch(op') /\ op'.flag)
          => (/\ store' = store
              /\ Touching(calls') = {}
              /\ report'.done = 0
              /\ report'.skipped = NumChildren(op'.a)
              /\ Len(report'.printed) = NumChildren(op'.a)
              /\ IF op'.a \in DOMAIN store
                 THEN result' = "Ok"
                 ELSE result' = "SessionNotFound" /\ calls' = <<>>)]_vars

\* a dry run, with snapshots enabled, over a parent with two children of
\* which one would have been merged
C8_DryRunWithChildren ==
    /\ IsOrch(op)
    /\ op.flag
    /\ op.status = "auto_snapshot"
    /\ result = "Ok"
    /\ report.skipped = 2
    /\ \E i \in 1..Len(report.printed) : report.printed[i] = "would run"

\* C9: after a cascade or gather without dry_run over a parent with N
\* children in which exactly one child's delegated call (child load,
\* workspace-info lookup or merge execution) failed, the command returned
\* success, every other child's merge command ran, and the report counts
\* N-1 done and 1 skipped
C9_FaultIsolation ==
    (/\ IsOrch(op)
     /\ ~op.flag
     /\ op.a \in DOMAIN store
     /\ Cardinality(MissingChildren(store, op.a)) + Cardinality(FailedCalls(calls)) = 1)
        => (/\ result = "Ok"
            /\ Len(report.printed) = NumChildren(op.a)
            /\ Count(report.printed, "failed") = 1
            /\ Cardinality(Ran(calls)) = NumChildren(op.a) - 1
            /\ report.done = NumChildren(op.a) - 1
            /\ report.skipped = 1)

\* the first of two children failed and the second was still processed
C9_FirstOfTwoFailed ==
    /\ IsOrch(op)
    /\ ~op.flag
    /\ result = "Ok"
    /\ NumChildren(op.a) = 2
    /\ report.printed[1] = "failed"
    /\ report.printed[2] \in {"merged", "conflicts"}
    /\ report.done = 1
    /\ report.skipped = 1

\* the merge command run for child c of the cascade in calls cs
RanFor(cs, workbox) == {i \in Ran(cs) : cs[i].workbox = workbox}

\* C10: in a cascade without dry_run, every child whose merge command ran
\* and returned output gains exactly one "cascaded" entry in its persisted
\* record and is counted as cascaded, with or without a conflict marker in
\* the output; the marker only picks the printed line; every other record
\* is left as it was; with one such child the report is 1 cascaded, 0
\* skipped
C10_CascadedEntry ==
    [][(op'.name = "cascade" /\ ~op'.flag /\ op'.a \in DOMAIN store)
          => LET kids == store[op'.a].children
             IN  /\ DOMAIN store' = DOMAIN store
                 /\ \A k \in DOMAIN store :
                        (\A i \in 1..Len(kids) : kids[i] # k) => store'[k] = store[k]
                 /\ \A i \in 1..Len(kids) :
                        kids[i] \in DOMAIN store =>
                            LET old == store[kids[i]]
                                new == store'[kids[i]]
                                ran == RanFor(calls', old.workbox_name)
                            IN  IF ran = {}
                                THEN /\ new = old
                                     /\ report'.printed[i] \notin {"merged", "conflicts"}
                                ELSE /\ Cardinality(ran) = 1
                                     /\ Len(new.activity_log) = Len(old.activity_log) + 1
                                     /\ SubSeq(new.activity_log, 1, Len(old.activity_log))
                                            = old.activity_log
                                     /\ new.activity_log[Len(new.activity_log)].event_type
                                            = "Cascaded"
                                     /\ new = [old EXCEPT !.activity_log = new.activity_log]
                                     /\ \A j \in ran :
                                            report'.printed[i] =
                                                IF has_conflict_marker(calls'[j].answer)
                                                THEN "conflicts" ELSE "merged"
                 /\ report'.done = Cardinality(Ran(calls'))
                 /\ report'.skipped = Len(kids) - report'.done
                 /\ (Len(kids) = 1 /\ Ran(calls') # {})
                        => (report'.done = 1 /\ report'.skipped = 0)]_vars

\* a cascade to one child whose merge reported conflicts
C10_ConflictStillCascaded ==
    /\ op.name = "cascade"
    /\ ~op.flag
    /\ result = "Ok"
    /\ report = [done |-> 1, skipped |-> 0, printed |-> <<"conflicts">>]
    /\ \E j \in Ran(calls) : has_conflict_marker(calls[j].answer)
    /\ LET c == store[op.a].children[1]
       IN  store[c].activity_log[Len(store[c].activity_log)].event_type = "Cascaded"

\* the merge commands among the calls cs, in the order they were executed
RECURSIVE Execs(_)
Execs(cs) ==
    IF cs = <<>> THEN <<>>
    ELSE IF cs[1].call = "exec_in_workbox"
    THEN <<cs[1]>> \o Execs(Tail(cs))
    ELSE Execs(Tail(cs))

\* the child a merge command of cascade or gather is about: cascade merges
\* in the child's workbox, gather merges the child's branch
ExecChild(o, st, call) ==
    IF o.name = "cascade"
    THEN CHOOSE c \in DOMAIN st : st[c].workbox_name = call.workbox
    ELSE CHOOSE c \in DOMAIN st : st[c].branch = call.cmd.branch

Position(seq, x) == CHOOSE i \in 1..Len(seq) : seq[i] = x

\* C11: in a cascade or gather stopped at any point, the merge commands
\* executed so far were executed in the order of the parent's stored
\* children list, each child at most once; the children merged are exactly
\* the non-failing ones among those the loop has finished with, plus at
\* most the one it was working on; every later child has had no command
\* run for it and its record is as it was
C11_OrderedPrefix ==
    [][(IsOrch(op') /\ ~op'.flag /\ op'.a \in DOMAIN store)
          => LET kids == store[op'.a].children
                 ex == Execs(calls')
                 at(j) == Position(kids, ExecChild(op', store, ex[j]))
                 seen == Len(report'.printed)
                 merged == {at(j) : j \in {n \in 1..Len(ex) : ex[n].answer # ExecFail}}
             IN  /\ seen <= Len(kids)
                 /\ \A j \in 1..Len(ex) :
                        \E i \in 1..Len(kids) : kids[i] = ExecChild(op', store, ex[j])
                 /\ \A j1, j2 \in 1..Len(ex) : j1 < j2 => at(j1) < at(j2)
                 /\ \A i \in 1..seen :
                        (i \in merged) <=> (report'.printed[i] # "failed")
                 /\ \A j \in 1..Len(ex) : at(j) <= seen + 1
                 /\ \A i \in 1..Len(kids) :
                        (i > seen /\ kids[i] \in DOMAIN store)
                            => store'[kids[i]] = store[kids[i]]]_vars

\* a cascade over two children stopped after the first was merged and
\* before the second was looked at
C11_StoppedAfterFirst ==
    /\ op.name = "cascade"
    /\ result = "Interrupted"
    /\ NumChildren(op.a) = 2
    /\ report.printed = <<"merged">>
    /\ Len(Execs(calls)) = 1
    /\ LET c1 == store[op.a].children[1]
           c2 == store[op.a].children[2]
       IN  /\ store[c1].activity_log[Len(store[c1].activity_log)].event_type = "Cascaded"
           /\ c2 \in DOMAIN store
           /\ store[c2].activity_log[Len(store[c2].activity_log)].event_type # "Cascaded"

\* the entries `new` has after those of `old`
Grown(old, new) ==
    IF Len(new.activity_log) >= Len(old.activity_log)
          /\ SubSeq(new.activity_log, 1, Len(old.activity_log)) = old.activity_log
    THEN SubSeq(new.activity_log, Len(old.activity_log) + 1, Len(new.activity_log))
    ELSE <<[event_type |-> "rewritten"]>>

\* `new` is `old` with nothing but entries appended to its activity log
OnlyAppends(old, new) ==
    /\ new = [old EXCEPT !.activity_log = new.activity_log]
    /\ \A i \in 1..Len(Grown(old, new)) : Grown(old, new)[i].event_type # "rewritten"

\* C12: cascade and gather change no session's status, parent or children
\* list, and create and delete no record; cascade only appends "cascaded"
\* entries to the activity logs of the parent's children, gather only
\* appends to the parent's activity log, and the parent's children list
\* after gather is the list before it
C12_OrchestrationFrame ==
    [][IsOrch(op')
          => /\ DOMAIN store' = DOMAIN store
             /\ \A k \in DOMAIN store :
                    /\ OnlyAppends(store[k], store'[k])
                    /\ store'[k].status = store[k].status
                    /\ store'[k].parent = store[k].parent
                    /\ store'[k].children = store[k].children
                    /\ Grown(store[k], store'[k]) # <<>> =>
                           IF op'.name = "cascade"
                           THEN /\ Contains(store[op'.a].children, k)
                                /\ \A i \in 1..Len(Grown(store[k], store'[k])) :
                                       Grown(store[k], store'[k])[i].event_type = "Cascaded"
                           ELSE /\ k = op'.a
                                /\ Len(Grown(store[k], store'[k])) = 1
                                /\ Grown(store[k], store'[k])[1].event_type = "Gathered"]_vars

\* a gather that merged both children and left both in the parent's list
C12_GatheredBothKept ==
    /\ op.name = "gather"
    /\ ~op.flag
    /\ result = "Ok"
    /\ report.done = 2
    /\ Len(store[op.a].children) = 2
    /\ store[op.a].activity_log[Len(store[op.a].activity_log)].event_type = "Gathered"
    /\ store[op.a].status = "Active"

\* C13 (as stated): every gather without dry_run that returns success
\* appends exactly one "gathered" entry to the parent's persisted record,
\* and the count in it is the number of children whose merge command ran
\* successfully in that invocation
C13_GatherAlwaysLogs ==
    [][(op'.name = "gather" /\ ~op'.flag /\ result' = "Ok")
          => /\ op'.a \in DOMAIN store'
             /\ Len(Grown(store[op'.a], store'[op'.a])) = 1
             /\ Grown(store[op'.a], store'[op'.a])[1].event_type = "Gathered"
             /\ Grown(store[op'.a], store'[op'.a])[1].n = Cardinality(Ran(calls'))]_vars

\* C13 (amended): every gather without dry_run over a parent with at least
\* one child returns success and appends exactly one "gathered" entry to
\* the parent's persisted record, whose count is the number of children
\* whose merge command ran successfully in that invocation; over a parent
\* with no children it returns success, makes no call and writes nothing
C13_GatherLogsOnce ==
    [][(op'.name = "gather" /\ ~op'.flag /\ op'.a \in DOMAIN store)
          => /\ result' = "Ok"
             /\ IF store[op'.a].children = <<>>
                THEN store' = store /\ calls' = <<>>
                ELSE /\ Len(Grown(store[op'.a], store'[op'.a])) = 1
                     /\ Grown(store[op'.a], store'[op'.a])[1].event_type = "Gathered"
                     /\ Grown(store[op'.a], store'[op'.a])[1].n = Cardinality(Ran(calls'))
                     /\ report'.done = Cardinality(Ran(calls'))]_vars

\* a gather over two children of which one failed: the entry counts one
C13_GatheredOneOfTwo ==
    /\ op.name = "gather"
    /\ ~op.flag
    /\ result = "Ok"
    /\ Len(store[op.a].children) = 2
    /\ Cardinality(Ran(calls)) = 1
    /\ Count(report.printed, "failed") = 1
    /\ store[op.a].activity_log[Len(store[op.a].activity_log)].event_type = "Gathered"
    /\ store[op.a].activity_log[Len(store[op.a].activity_log)].n = 1

\* C14: after every merge_sessions(target, sources), each source whose
\* merge command was executed and returned output (clean or with
\* conflicts) is not in the target's persisted children list, each source
\* whose merge command failed, and for which none succeeded, is in the list
\* if it was before, and an invocation that returns success has appended
\* exactly one "integrated" entry to the target
C14_MergeDropsMerged ==
    [][(op'.name = "merge_sessions" /\ op'.a \in DOMAIN store)
          => LET ex == Execs(calls')
                 src(j) == ExecChild(op', store, ex[j])
                 merged == {src(j) : j \in {n \in 1..Len(ex) : ex[n].answer # ExecFail}}
                 failed == {src(j) : j \in {n \in 1..Len(ex) : ex[n].answer = ExecFail}}
             IN  /\ \A c \in merged : ~Contains(store'[op'.a].children, c)
                 /\ \A c \in failed \ merged :
                        Contains(store[op'.a].children, c)
                            => Contains(store'[op'.a].children, c)
                 /\ result' = "Ok" =>
                        /\ Len(Grown(store[op'.a], store'[op'.a])) = 1
                        /\ Grown(store[op'.a], store'[op'.a])[1].event_type = "Integrated"]_vars

\* --------------------------------------------------------- session status
\* the transitions of the status state machine
Transitions ==
    ({"Active", "Paused"} \X {"Integrated", "Archived", "Abandoned"})
        \cup {<<"Active", "Paused">>, <<"Paused", "Active">>}

Terminal == {"Integrated", "Archived", "Abandoned"}

\* C15: every change of a persisted session's status is a transition of
\* the state machine Active->Paused, Paused->Active, Active/Paused->
\* Integrated, Active/Paused->Archived, ->Abandoned, and a status that is
\* Integrated, Archived or Abandoned is never changed
C15_StatusMachine ==
    [][\A n \in DOMAIN store \cap DOMAIN store' :
          /\ store'[n].status # store[n].status
                 => <<store[n].status, store'[n].status>> \in Transitions
          /\ store[n].status \in Terminal
                 => store'[n].status = store[n].status]_vars

FailedProvisioning(cs) ==
    {i \in 1..Len(cs) : cs[i].call = "create_workbox" /\ cs[i].answer = Done(FALSE)}

\* C17: when workspace provisioning fails during create(name, ..), create
\* returns that error, no session record named `name` is persisted and the
\* store is as it was
C17_NoOrphanRecord ==
    [][(op'.name = "create_session" /\ FailedProvisioning(calls') # {})
          => /\ result' = "HnCommandFailed"
             /\ op'.a \notin DOMAIN store'
             /\ store' = store]_vars

\* a create whose provisioning failed
C17_ProvisioningFailed ==
    /\ op.name = "create_session"
    /\ result = "HnCommandFailed"
    /\ FailedProvisioning(calls) # {}
    /\ op.a \notin DOMAIN store

\* characters names are made of
Chars == {"a", ".", " ", "/", "\\"}

Names == UNION {[1..n -> Chars] : n \in 0..MaxNameLen}

HasSeparator(name) == \E i \in 1..Len(name) : name[i] \in {"/", "\\"}

C19_LinkLoadFailure ==
    [][(/\ op'.name = "link_parent_child"
        /\ (op'.a \notin DOMAIN store \/ op'.b \notin DOMAIN store))
          => /\ result' = "SessionNotFound"
             /\ store' = store]_vars

\* a link whose parent loads and whose child does not
C19_ChildMissing ==
    /\ op.name = "link_parent_child"
    /\ result = "SessionNotFound"
    /\ op.a \in DOMAIN store
    /\ op.b \notin DOMAIN store
    /\ store[op.a].children = <<>>

C21_ListByStatus ==
    [][op'.name = "list_sessions_by_status"
          => /\ result' = "Ok"
             /\ {report'.printed[i] : i \in 1..Len(report'.printed)}
                    = {k \in DOMAIN store :
                          store[k].kind = "session" /\ store[k].status = op'.status}
             /\ \A i, j \in 1..Len(report'.printed) :
                    i < j => /\ report'.printed[i] # report'.printed[j]
                             /\ store[report'.printed[i]].last_active
                                    >= store[report'.printed[j]].last_active]_vars

\* ------------------------------------------------------ tree traversals
IsWalk(o) == o.name \in {"get_session_tree", "show_tree", "get_all_descendants"}

RECURSIVE ReachIn(_, _)

\* the names reached from `seen` through children lists of loadable records
ReachIn(seen, n) ==
    IF n = 0
    THEN seen
    ELSE ReachIn(seen \cup {y \in DOMAIN store : \E x \in seen : ChildEdge(x, y)}, n - 1)

Descendants(name) == ReachIn({name}, Cardinality(ValidNames))

\* C22: get_session_tree(name) fails only when `name` does not load; else it
\* returns `name` first, then exactly its loadable descendants, each after
\* a session that lists it as a child, children of one session in stored order
C22_TreePreOrder ==
    op.name = "get_session_tree"
        => IF ~session_exists(store, op.a)
           THEN result = "SessionNotFound"
           ELSE /\ result = "Ok"
                /\ report.printed[1] = op.a
                /\ {report.printed[i] : i \in 1..Len(report.printed)} = Descendants(op.a)
                /\ \A i \in 2..Len(report.printed) :
                       \E j \in 1..(i - 1) : ChildEdge(report.printed[j], report.printed[i])

\* C29: every traversal of a reachable store returns
C29_WalksTerminate ==
    IsWalk(op) => result \in {"Ok", "SessionNotFound"}

\* ------------------------------------------------------------------ close
\* the remove_workbox calls that failed
FailedRemoval(cs) ==
    {i \in 1..Len(cs) : cs[i].call = "remove_workbox" /\ cs[i].answer = Done(FALSE)}

\* C23: close(name, status, remove_workspace) of a persisted session whose
\* requested workspace removal fails returns that error and leaves the
\* store as it was; every other close of a persisted session succeeds, sets
\* the record's status to `status`, appends exactly one status-changed
\* entry to its log and changes nothing else
C23_CloseSetsStatusOrFails ==
    [][(op'.name = "close_session" /\ op'.a \in DOMAIN store)
          => IF FailedRemoval(calls') # {}
             THEN /\ op'.flag
                  /\ result' = "HnCommandFailed"
                  /\ store' = store
             ELSE /\ result' = "Ok"
                  /\ DOMAIN store' = DOMAIN store
                  /\ \A k \in DOMAIN store : k # op'.a => store'[k] = store[k]
                  /\ store'[op'.a].status = op'.status
                  /\ store'[op'.a] = [store[op'.a] EXCEPT
                                         !.status = op'.status,
                                         !.activity_log = store'[op'.a].activity_log]
                  /\ Len(Grown(store[op'.a], store'[op'.a])) = 1
                  /\ Grown(store[op'.a], store'[op'.a])[1].event_type = "StatusChanged"]_vars

\* a close whose workspace removal failed, over a session that stays Active
C23_RemovalFailed ==
    /\ op.name = "close_session"
    /\ op.flag
    /\ op.status = "Archived"
    /\ result = "HnCommandFailed"
    /\ FailedRemoval(calls) # {}
    /\ op.a \in DOMAIN store
    /\ store[op.a].status = "Active"
    /\ Len(store[op.a].activity_log) = 1

\* ------------------------------------------------------------------ clone
IsClone(o) == o.name \in {"clone_session", "collab_clone_session"}

\* C24: a clone of a persisted session to a name that is persisted fails
\* with already-exists and writes nothing; a clone that succeeds adds one
\* record under the new name, with no parent, no children and a log of
\* exactly the one "cloned" entry, and leaves every other record, the
\* source included, as it was
C24_CloneStartsDetached ==
    [][(IsClone(op') /\ op'.a \in DOMAIN store)
          => IF op'.b \in DOMAIN store
             THEN result' = "SessionAlreadyExists" /\ store' = store
             ELSE IF result' = "Ok"
             THEN /\ DOMAIN store' = DOMAIN store \cup {op'.b}
                  /\ \A k \in DOMAIN store : store'[k] = store[k]
                  /\ store'[op'.b].name = op'.b
                  /\ store'[op'.b].parent = {}
                  /\ store'[op'.b].children = <<>>
                  /\ Len(store'[op'.b].activity_log) = 1
                  /\ store'[op'.b].activity_log[1].event_type = "SessionCreated"
                  /\ store'[op'.b].activity_log[1].text
                         \in {"Cloned from session", "Cloned from"}
                  /\ store'[op'.b].activity_log[1].arg = op'.a
             ELSE store' = store]_vars

\* ----------------------------------------------------------------- delete
\* C25: delete(name) fails with not-found and changes nothing when `name`
\* is not persisted; otherwise it removes the record named `name` and no
\* other, and every other record is as it was: descendants stay, children
\* keep their parent reference, the parent's children list keeps the name
C25_DeleteOnlyNamed ==
    [][op'.name = "delete_session"
          => IF op'.a \notin DOMAIN store
             THEN result' = "SessionNotFound" /\ store' = store
             ELSE /\ result' = "Ok"
                  /\ DOMAIN store' = DOMAIN store \ {op'.a}
                  /\ \A k \in DOMAIN store' : store'[k] = store[k]]_vars

\* the middle session of a chain deleted: its parent still lists it, its
\* child still refers to it
C25_DeletedMiddle ==
    /\ op.name = "delete_session"
    /\ result = "Ok"
    /\ op.a \notin DOMAIN store
    /\ \E p \in DOMAIN store : Contains(store[p].children, op.a)
    /\ \E c \in DOMAIN store : store[c].parent = {op.a}

\* ------------------------------------------------------ concurrent saves
\* the writes made so far: who wrote, which record, when, and what
Writes ==
    {[at |-> running[p].parent_saved, name |-> running[p].parent_name,
      value |-> running[p].parent] : p \in {q \in Procs : running[q].parent_saved > 0}}
    \cup
    {[at |-> running[p].child_saved, name |-> running[p].child_name,
      value |-> running[p].child] : p \in {q \in Procs : running[q].child_saved > 0}}

\* C26: with two invocations of link_parent_child interleaved, every record
\* some invocation has saved is exactly the copy written by the latest save
\* of that record: the copy the saving invocation loaded and updated,
\* whatever the other invocation wrote in between
C26_LaterSaveWins ==
    \A w \in Writes :
        (\A v \in Writes : v.name = w.name => v.at <= w.at)
            => store[w.name] = w.value

\* link_parent_child(P, C1) and link_parent_child(P, C2) both finished with
\* success: P lists one of the two children, both children refer to P
C26_LostChild ==
    /\ \A p \in Procs : running[p].pc = "done"
    /\ running["first"].parent_name = running["second"].parent_name
    /\ running["first"].child_name # running["second"].child_name
    /\ running["first"].child_name # running["first"].parent_name
    /\ running["second"].child_name # running["first"].parent_name
    /\ Len(store[running["first"].parent_name].children) = 1
    /\ \A p \in Procs : store[running[p].child_name].parent = {running[p].parent_name}

\* ------------------------------------------------------------ unknown VCS
RECURSIVE Infos(_)

\* the workspace-info calls among cs, in the order they were made
Infos(cs) ==
    IF cs = <<>> THEN <<>>
    ELSE IF cs[1].call = "get_workbox_info"
    THEN <<cs[1]>> \o Infos(Tail(cs))
    ELSE Infos(Tail(cs))

\* the workspace-info call made for the i-th child: every child that loads
\* makes one, in the order of the children list
InfoFor(cs, st, kids, i) ==
    Infos(cs)[Cardinality({j \in 1..i : kids[j] \in DOMAIN st})]

UnknownVcs(call) == call.answer[1] \notin {"git", "hg", "jj", "fail"}

\* C27: in a cascade or gather, a child for which the workspace answers
\* with a VCS tag other than git, hg, jj is printed as failed and counted
\* as skipped, no merge command and no snapshot is made for it, its record
\* is left as it was, and the loop goes on: every child gets its line and
\* the operation returns success
C27_UnknownVcsSkipsChild ==
    [][(IsOrch(op') /\ op'.a \in DOMAIN store)
          => LET kids == store[op'.a].children
             IN  \A i \in 1..Len(kids) :
                     (kids[i] \in DOMAIN store
                          /\ UnknownVcs(InfoFor(calls', store, kids, i)))
                         => /\ result' = "Ok"
                            /\ Len(report'.printed) = Len(kids)
                            /\ report'.printed[i] = "failed"
                            /\ report'.done + report'.skipped = Len(kids)
                            /\ report'.done = IF op'.flag THEN 0 ELSE Cardinality(Ran(calls'))
                            /\ \A j \in 1..Len(calls') :
                                   calls'[j].call = "exec_in_workbox"
                                       => ExecChild(op', store, calls'[j]) # kids[i]
                            /\ \A j \in 1..Len(calls') :
                                   calls'[j].call = "create_snapshot"
                                       => calls'[j].workbox # kids[i]
                            /\ store'[kids[i]] = store[kids[i]]]_vars

\* a cascade over two children: the first workspace is of unknown VCS, the
\* second child is merged and logged
C27_UnknownThenMerged ==
    /\ op.name = "cascade"
    /\ ~op.flag
    /\ result = "Ok"
    /\ Len(store[op.a].children) = 2
    /\ UnknownVcs(Infos(calls)[1])
    /\ report = [done |-> 1, skipped |-> 1, printed |-> <<"failed", "merged">>]
    /\ Cardinality(Ran(calls)) = 1
    /\ LET c1 == store[op.a].children[1]
           c2 == store[op.a].children[2]
       IN  /\ \A i \in 1..Len(store[c1].activity_log) :
                  store[c1].activity_log[i].event_type # "Cascaded"
           /\ store[c2].activity_log[Len(store[c2].activity_log)].event_type = "Cascaded"

\* ----------------------------------------------------------- activity log
Logging(o) ==
    o.name \in {"link_parent_child", "unlink_parent_child", "close_session", "leave",
                "handoff", "cascade", "gather", "merge_sessions"}

\* C28: across link, unlink, close, leave, handoff, cascade, gather and
\* merge_sessions, run one after the other, every persisted record stays
\* persisted and its activity log afterwards begins with the whole log it
\* had before: no entry is removed, moved or altered
C28_LogAppendOnly ==
    [][Logging(op')
          => \A k \in DOMAIN store :
                 /\ k \in DOMAIN store'
                 /\ Len(store'[k].activity_log) >= Len(store[k].activity_log)
                 /\ SubSeq(store'[k].activity_log, 1, Len(store[k].activity_log))
                        = store[k].activity_log]_vars

\* a record whose log was appended to by two operations after its creation
C28_AppendedTwice ==
    /\ Logging(op)
    /\ result = "Ok"
    /\ \E k \in DOMAIN store :
           /\ Len(store[k].activity_log) = 3
           /\ store[k].activity_log[1].event_type = "SessionCreated"
           /\ store[k].activity_log[2].event_type # store[k].activity_log[3].event_type

\* ------------------------------------------------------- persisted names
\* C30: every persisted session record has a valid name, whether create or
\* one of the two clones wrote it
C30_PersistedNamesValid ==
    \A k \in DOMAIN store :
        /\ store[k].name = k
        /\ validate_session_name(k) = "Ok"
====
